---- MODULE Spec2Model ----
(***************************************************************************)
(* Model of the conversation-state manager (llm/chatbot.py): the Chatbot   *)
(* object, its two persisted JSON documents, and the generators returned   *)
(* by chat(query, stream=True).  The provider adapter is the environment   *)
(* of the manager: generate returns a text (or raises), generate_stream    *)
(* yields chunks one pull at a time.                                       *)
(***************************************************************************)
EXTENDS Integers, Sequences, FiniteSets, TLC

VARIABLES
    proc,          \* "fresh" before a Chatbot exists, "alive", "failed" (constructor raised)
    cfg,           \* system_prompt, context, max_history of the live Chatbot
    entities,      \* self.entities : name -> Entity
    history,       \* self.history  : list of HistoryEntry
    entitiesFile,  \* content of entities_file
    historyFile,   \* content of history_file
    streams,       \* generator objects returned by chat(query, stream=True)
    pc,            \* position of the single thread: "idle", or inside a _save_* call
    op,            \* the operation in progress or last returned, with its inputs and result
    clock,         \* what datetime.now() returns
    importTime     \* datetime.now() evaluated when the Entity class was defined

vars == <<proc, cfg, entities, history, entitiesFile, historyFile, streams,
          pc, op, clock, importTime>>

(***************************************************************************)
(* Bounds                                                                  *)
(***************************************************************************)
MaxHistoryLen == 2      \* chats are disabled once the stored history has this length
MaxChunks     == 2      \* chunks one adapter stream yields at most
MaxSec        == 0      \* the clock stops advancing after this second
MaxMaxHistory == 2      \* largest max_history passed to the constructor
MaxLoaded     == 5      \* longest history found in the document at start-up

Usecs     == {0, 1}                         \* microsecond fields the clock shows
Datetimes == [sec : 0..MaxSec, usec : Usecs]
Queries   == {"hi", "yo"}
Names     == {"alice", "bob"}
AttrKeys  == {"age", "city"}
AttrVals  == {"v"}

(***************************************************************************)
(* Python values                                                           *)
(***************************************************************************)
None == [t |-> "None"]
Dict(f) == [t |-> "dict", d |-> f]
List(s) == [t |-> "list", d |-> s]
Str(s)  == [t |-> "str", d |-> s]
EmptyDict == Dict(<<>>)

\* bool(x) of an Optional[Dict]
Truthy(x) == x.t = "dict" /\ DOMAIN x.d # {}

\* attribute mappings a caller passes to add_entity
AttrDicts == UNION {[K -> AttrVals] : K \in SUBSET AttrKeys}

Before(a, b) == a.sec < b.sec \/ (a.sec = b.sec /\ a.usec < b.usec)

\* datetime.isoformat(): the microsecond part is printed only when non-zero
isoformat(dt) == IF dt.usec = 0 THEN <<dt.sec>> ELSE <<dt.sec, dt.usec>>

IsIsoText(s) == Len(s) \in {1, 2}

\* datetime.fromisoformat() of a text isoformat() can produce
fromisoformat(s) ==
    IF Len(s) = 1 THEN [sec |-> s[1], usec |-> 0]
                  ELSE [sec |-> s[1], usec |-> s[2]]

(***************************************************************************)
(* Entity and HistoryEntry                                                 *)
(***************************************************************************)
\* Entity(name=..., attributes=...): created_at takes the class-level default
Entity(name, attributes) ==
    [name |-> name, attributes |-> attributes, created_at |-> importTime]

Entity_to_dict(e) ==
    [name |-> e.name, attributes |-> e.attributes,
     created_at |-> isoformat(e.created_at)]

Has(data, k) == k \in DOMAIN data

\* the exception Entity.from_dict raises on data, "" if none
Entity_from_dict_err(data) ==
    IF ~Has(data, "name") \/ ~Has(data, "attributes") THEN "KeyError"
    ELSE IF Has(data, "created_at") /\ ~IsIsoText(data.created_at) THEN "ValueError"
    ELSE ""

Entity_from_dict(data) ==
    [name |-> data.name, attributes |-> data.attributes,
     created_at |-> IF Has(data, "created_at")
                    THEN fromisoformat(data.created_at)
                    ELSE importTime]

HistoryEntry(ts, q, r) ==
    [timestamp |-> ts, query |-> q, response |-> r, metadata |-> None]

HistoryEntry_to_dict(e) ==
    [timestamp |-> isoformat(e.timestamp), query |-> e.query,
     response |-> e.response,
     metadata |-> IF Truthy(e.metadata) THEN e.metadata ELSE EmptyDict]

HistoryEntry_from_dict_err(data) ==
    IF ~Has(data, "timestamp") THEN "KeyError"
    ELSE IF ~IsIsoText(data.timestamp) THEN "ValueError"
    ELSE IF ~Has(data, "query") \/ ~Has(data, "response") THEN "KeyError"
    ELSE ""

HistoryEntry_from_dict(data) ==
    [timestamp |-> fromisoformat(data.timestamp), query |-> data.query,
     response |-> data.response,
     metadata |-> IF Has(data, "metadata") THEN data.metadata ELSE EmptyDict]

(***************************************************************************)
(* The persisted documents                                                 *)
(***************************************************************************)
Absent     == [kind |-> "absent"]       \* no such file
Unreadable == [kind |-> "unreadable"]   \* open(..., 'r') raises an OSError other than FileNotFoundError
Empty      == [kind |-> "empty"]        \* zero bytes, as left by open(..., 'w')
Partial    == [kind |-> "partial"]      \* a proper prefix of a JSON text
Garbage    == [kind |-> "garbage"]      \* text that is not JSON
Json(v)    == [kind |-> "json", value |-> v]

Ok(v)     == [ok |-> TRUE, value |-> v]
Raise(e)  == [ok |-> FALSE, exc |-> e]

\* json.dump of the to_dict() of every stored object
EntitiesDoc(ents) == Json(Dict([n \in DOMAIN ents |-> Entity_to_dict(ents[n])]))
HistoryDoc(h)     == Json(List([i \in 1..Len(h) |-> HistoryEntry_to_dict(h[i])]))

_load_entities(f) ==
    CASE f.kind = "absent" -> Ok(<<>>)
      [] f.kind = "unreadable" -> Raise("PermissionError")
      [] f.kind \in {"empty", "partial", "garbage"} -> Ok(<<>>)
      [] OTHER ->
           IF f.value.t # "dict" THEN Raise("AttributeError")
           ELSE LET data == f.value.d
                    bad  == {n \in DOMAIN data : Entity_from_dict_err(data[n]) # ""}
                IN IF bad # {}
                   THEN Raise(Entity_from_dict_err(data[CHOOSE n \in bad : TRUE]))
                   ELSE Ok([n \in DOMAIN data |-> Entity_from_dict(data[n])])

_load_history(f) ==
    CASE f.kind = "absent" -> Ok(<<>>)
      [] f.kind = "unreadable" -> Raise("PermissionError")
      [] f.kind \in {"empty", "partial", "garbage"} -> Ok(<<>>)
      [] OTHER ->
           IF f.value.t = "dict"
           THEN IF DOMAIN f.value.d = {} THEN Ok(<<>>) ELSE Raise("TypeError")
           ELSE IF f.value.t # "list" THEN Raise("TypeError")
           ELSE LET data == f.value.d
                    bad  == {i \in 1..Len(data) : HistoryEntry_from_dict_err(data[i]) # ""}
                IN IF bad # {}
                   THEN Raise(HistoryEntry_from_dict_err(data[CHOOSE i \in bad : \A j \in bad : i <= j]))
                   ELSE Ok([i \in 1..Len(data) |-> HistoryEntry_from_dict(data[i])])

(***************************************************************************)
(* Prompt assembly                                                         *)
(***************************************************************************)
Min(a, b) == IF a < b THEN a ELSE b
Max(a, b) == IF a > b THEN a ELSE b

\* s[:-start], the oldest entries instead of the newest
PySliceFrom_head(s, start) == SubSeq(s, 1, Min(Len(s), -start))

\* s[start:] with Python's treatment of a negative or oversized start
PySliceFrom(s, start) ==
    LET n == Len(s)
        i == IF start < 0 THEN Max(n + start, 0) ELSE Min(start, n)
    IN SubSeq(s, i + 1, n)

\* bool(x) of an Optional[str]
TruthyStr(x) == x.t = "str" /\ x.d # ""

\* one element of prompt_parts; "\n".join(prompt_parts) puts each on its own line
Line(k, v) == [k |-> k, v |-> v]

RECURSIVE RenderEntries(_)
RenderEntries(h) ==
    IF h = <<>> THEN <<>>
    ELSE <<Line("User", Head(h).query), Line("Assistant", Head(h).response)>>
         \o RenderEntries(Tail(h))

_create_prompt(query) ==
    (IF TruthyStr(cfg.system_prompt) THEN <<Line("System", cfg.system_prompt.d)>> ELSE <<>>)
    \o (IF TruthyStr(cfg.context) THEN <<Line("Context", cfg.context.d)>> ELSE <<>>)
    \o (IF history # <<>>
        THEN <<Line("Header", "Previous conversation:")>>
             \o RenderEntries(PySliceFrom(history, -cfg.max_history))
             \o <<Line("Blank", "")>>
        ELSE <<>>)
    \o <<Line("User", query)>>

(***************************************************************************)
(* The adapter, as the manager sees it                                     *)
(***************************************************************************)
ErrorText   == "Error parsing API response."
Texts       == {"Hello", ErrorText}           \* what generate returns
StreamError == "Error during streaming: e"
GenerateOutcomes == {Ok(t) : t \in Texts} \cup {Raise("IndexError")}

\* the k-th text delta of a streamed response
DeltaAt(k) == IF k % 2 = 1 THEN "Hel" ELSE "lo"

\* ''.join(chunks)
RECURSIVE Join(_)
Join(chunks) == IF chunks = <<>> THEN "" ELSE Head(chunks) \o Join(Tail(chunks))

(***************************************************************************)
(* Generators returned by chat(query, stream=True)                         *)
(***************************************************************************)
\* st: "free"      no generator in this slot
\*     "created"   generator object returned, body not started
\*     "suspended" stopped at `yield token`
\*     "running"   past the loop, inside _save_history
\*     "done"      body returned (StopIteration)
\*     "closed"    dropped by the consumer before exhaustion (GeneratorExit)
\* produced: chunks the adapter has yielded;  full: full_response;
\* delivered: chunks the consumer has received;  appended: entries it appended
FreeStream ==
    [st |-> "free", query |-> "", prompt |-> <<>>, produced |-> <<>>,
     full |-> <<>>, delivered |-> <<>>, appended |-> 0, after |-> {}]

StreamIds == DOMAIN streams
Open(s) == streams[s].st \in {"created", "suspended"}
NumOpen == Cardinality({s \in StreamIds : Open(s)})

NoOp == [name |-> "none", exc |-> ""]

Last(s) == s[Len(s)]

Put(f, k, v) == [x \in DOMAIN f \cup {k} |-> IF x = k THEN v ELSE f[x]]

(***************************************************************************)
(* Constructor arguments                                                   *)
(***************************************************************************)
DefaultSystemPrompt == Str("You are a helpful assistant.")
SystemPromptArgs == {None, Str("Be brief.")}
ContextArgs      == {None, Str("Paris trip")}
MaxHistoryArgs   == 0..MaxMaxHistory
CfgArgs == [system_prompt : SystemPromptArgs, context : ContextArgs,
            max_history : MaxHistoryArgs]
\* the arguments of the conversation runs: system_prompt defaulted, a context, a window of one
ChatArgs == {[system_prompt |-> None, context |-> Str("Paris trip"), max_history |-> 1]}

NoCfg == [system_prompt |-> None, context |-> None, max_history |-> 0]

(***************************************************************************)
(* Initial state: the process has imported the module, no Chatbot exists,  *)
(* no document has been written yet.                                       *)
(***************************************************************************)
Init ==
    /\ proc = "fresh"
    /\ cfg = NoCfg
    /\ entities = <<>>
    /\ history = <<>>
    /\ entitiesFile = Absent
    /\ historyFile = Absent
    /\ streams = [s \in {1} |-> FreeStream]
    /\ pc = "idle"
    /\ op = NoOp
    /\ clock = [sec |-> 0, usec |-> 0]
    /\ importTime = [sec |-> 0, usec |-> 0]

(***************************************************************************)
(* Operations                                                              *)
(***************************************************************************)
\* Chatbot.__init__; llmOk is whether LLM.create returned an adapter
Construct(args, llmOk) ==
    /\ pc = "idle"
    /\ proc # "down"
    /\ LET le == _load_entities(entitiesFile)
           lh == _load_history(historyFile)
           stage == IF ~llmOk THEN "LLM.create"
                    ELSE IF ~le.ok THEN "_load_entities"
                    ELSE IF ~lh.ok THEN "_load_history"
                    ELSE ""
           exc == CASE stage = "LLM.create" -> "ValueError"
                    [] stage = "_load_entities" -> le.exc
                    [] stage = "_load_history" -> lh.exc
                    [] OTHER -> ""
       IN /\ proc' = IF exc = "" THEN "alive" ELSE "failed"
          /\ cfg' = IF exc = ""
                    THEN [system_prompt |-> IF TruthyStr(args.system_prompt)
                                            THEN args.system_prompt
                                            ELSE DefaultSystemPrompt,
                          context |-> args.context,
                          max_history |-> args.max_history]
                    ELSE NoCfg
          /\ entities' = IF exc = "" THEN le.value ELSE <<>>
          /\ history' = IF exc = "" THEN lh.value ELSE <<>>
          /\ op' = [name |-> "construct", exc |-> exc, stage |-> stage]
    /\ streams' = [s \in StreamIds |-> FreeStream]
    /\ UNCHANGED <<entitiesFile, historyFile, pc, clock, importTime>>

Ready == proc = "alive" /\ pc = "idle"

\* self.entities[name].attributes.update(...) when the name is already stored
StoreEntity_merge(ents, name, entity) ==
    IF name \in DOMAIN ents
    THEN LET old == ents[name].attributes.d
             new == entity.attributes.d
         IN Put(ents, name,
                [entity EXCEPT !.attributes =
                    Dict([k \in DOMAIN old \cup DOMAIN new |->
                            IF k \in DOMAIN new THEN new[k] ELSE old[k]])])
    ELSE Put(ents, name, entity)

\* self.entities[name] = entity
StoreEntity(ents, name, entity) == Put(ents, name, entity)

\* add_entity up to and including the open(entities_file, 'w') of _save_entities;
\* op.old is what was stored under the name before the call
AddEntity(name, attributes) ==
    /\ Ready
    /\ LET entity == Entity(name, Dict(attributes))
       IN /\ entities' = StoreEntity(entities, name, entity)
          /\ op' = [name |-> "add_entity", arg |-> name, attrs |-> Dict(attributes),
                    old |-> IF name \in DOMAIN entities
                            THEN entities[name].attributes ELSE None,
                    ret |-> entity, exc |-> ""]
    /\ entitiesFile' = Empty
    /\ pc' = "save_entities"
    /\ UNCHANGED <<proc, cfg, history, historyFile, streams, clock, importTime>>

GetEntity(name) ==
    /\ Ready
    /\ op' = [name |-> "get_entity", arg |-> name, exc |-> "",
              ret |-> IF name \in DOMAIN entities THEN entities[name] ELSE None]
    /\ UNCHANGED <<proc, cfg, entities, history, entitiesFile, historyFile,
                   streams, pc, clock, importTime>>

\* _create_prompt(query) called on its own
CreatePrompt(query) ==
    /\ Ready
    /\ op' = [name |-> "create_prompt", query |-> query, exc |-> "",
              ret |-> _create_prompt(query)]
    /\ UNCHANGED <<proc, cfg, entities, history, entitiesFile, historyFile,
                   streams, pc, clock, importTime>>

\* _generate_response with history.insert(0, entry) in place of append
_generate_response_insert(query, out) ==
    IF out.ok
    THEN /\ history' = <<HistoryEntry(clock, query, out.value)>> \o history
         /\ historyFile' = Empty
         /\ pc' = "save_history"
         /\ op' = [name |-> "chat", query |-> query, gen |-> out.value,
                   ret |-> out.value, exc |-> ""]
    ELSE /\ op' = [name |-> "chat", query |-> query, exc |-> out.exc]
         /\ UNCHANGED <<history, historyFile, pc>>

\* _generate_response that keeps only the last max_history entries
_generate_response_trim(query, out) ==
    IF out.ok
    THEN /\ history' = PySliceFrom(Append(history, HistoryEntry(clock, query, out.value)),
                                   -cfg.max_history)
         /\ historyFile' = Empty
         /\ pc' = "save_history"
         /\ op' = [name |-> "chat", query |-> query, gen |-> out.value,
                   ret |-> out.value, exc |-> ""]
    ELSE /\ op' = [name |-> "chat", query |-> query, exc |-> out.exc]
         /\ UNCHANGED <<history, historyFile, pc>>

\* _generate_response up to and including the open(history_file, 'w')
_generate_response(query, out) ==
    IF out.ok
    THEN /\ history' = Append(history, HistoryEntry(clock, query, out.value))
         /\ historyFile' = Empty
         /\ pc' = "save_history"
         /\ op' = [name |-> "chat", query |-> query, gen |-> out.value,
                   ret |-> out.value, exc |-> ""]
    ELSE /\ op' = [name |-> "chat", query |-> query, exc |-> out.exc]
         /\ UNCHANGED <<history, historyFile, pc>>

\* chat(query): _create_prompt, then _generate_response on the adapter's outcome
Chat(query, out) ==
    /\ Ready
    /\ Len(history) + NumOpen < MaxHistoryLen
    /\ _generate_response(query, out)
    /\ UNCHANGED <<proc, cfg, entities, entitiesFile, streams, clock, importTime>>

\* a generator that asks the adapter for the first chunk when it is created
NewGenerator_eager(query) ==
    [FreeStream EXCEPT !.st = "created", !.query = query,
                       !.prompt = _create_prompt(query),
                       !.produced = <<DeltaAt(1)>>,
                       !.after = {t \in StreamIds : Open(t)}]

\* self._stream_response(query, prompt): the generator object, its body not yet
\* entered; `after` remembers the generators that were open at this call
NewGenerator(query) ==
    [FreeStream EXCEPT !.st = "created", !.query = query,
                       !.prompt = _create_prompt(query),
                       !.after = {t \in StreamIds : Open(t)}]

\* chat(query, stream=True): builds the prompt and returns a generator object
ChatStream(query, s) ==
    /\ Ready
    /\ ~Open(s)
    /\ Len(history) + NumOpen < MaxHistoryLen
    /\ streams' = [streams EXCEPT ![s] = NewGenerator(query)]
    /\ op' = [name |-> "chat_stream", query |-> query, sid |-> s, exc |-> ""]
    /\ UNCHANGED <<proc, cfg, entities, history, entitiesFile, historyFile,
                   pc, clock, importTime>>

\* chunks the adapter may yield next, having yielded `produced`
NextChunks(produced) ==
    IF Len(produced) >= MaxChunks THEN {}
    ELSE IF produced # <<>> /\ produced[Len(produced)] = StreamError THEN {}
    ELSE {DeltaAt(Len(produced) + 1), StreamError}

\* the loop body yielding the token without recording it in full_response
StreamLoopBody_norecord(g, token) ==
    [g EXCEPT !.st = "suspended",
              !.produced = Append(@, token),
              !.delivered = Append(@, token)]

\* the loop body of a generator whose prompt is built when its body is entered
StreamLoopBody_lazy(g, token) ==
    [g EXCEPT !.st = "suspended",
              !.prompt = IF g.st = "created" THEN _create_prompt(g.query) ELSE @,
              !.produced = Append(@, token),
              !.full = Append(@, token),
              !.delivered = Append(@, token)]

\* the loop body of _stream_response on one token
StreamLoopBody(g, token) ==
    [g EXCEPT !.st = "suspended",
              !.produced = Append(@, token),
              !.full = Append(@, token),
              !.delivered = Append(@, token)]

\* next(gen): the adapter yields a chunk, the loop body appends and yields it
PullChunk(s, token) ==
    /\ Ready
    /\ Open(s)
    /\ token \in NextChunks(streams[s].produced)
    /\ streams' = [streams EXCEPT ![s] = StreamLoopBody(@, token)]
    /\ op' = [name |-> "pull", sid |-> s, ret |-> token, exc |-> ""]
    /\ UNCHANGED <<proc, cfg, entities, history, entitiesFile, historyFile,
                   pc, clock, importTime>>

\* an entry stamped with a time taken when the module was imported
StreamEntry_import(g) == HistoryEntry(importTime, g.query, Join(g.full))

\* the entry _stream_response appends after the loop
StreamEntry(g) == HistoryEntry(clock, g.query, Join(g.full))

\* next(gen): the adapter is exhausted, the code after the loop runs
PullEnd(s) ==
    /\ Ready
    /\ Open(s)
    /\ history' = Append(history, StreamEntry(streams[s]))
    /\ historyFile' = Empty
    /\ pc' = "save_history"
    /\ streams' = [streams EXCEPT ![s].st = "running", ![s].appended = @ + 1]
    /\ op' = [name |-> "stream_end", sid |-> s, exc |-> "StopIteration"]
    /\ UNCHANGED <<proc, cfg, entities, entitiesFile, clock, importTime>>

\* next(gen) on a generator that has returned or was closed
PullAfter(s) ==
    /\ Ready
    /\ streams[s].st \in {"done", "closed"}
    /\ op' = [name |-> "pull_after", sid |-> s, exc |-> "StopIteration"]
    /\ UNCHANGED <<proc, cfg, entities, history, entitiesFile, historyFile,
                   streams, pc, clock, importTime>>

\* what close() / garbage collection does to a generator that has not returned
GeneratorExit(g) == [g EXCEPT !.st = "closed"]

\* the append placed in a finally: clause, which GeneratorExit runs
HistoryOnExit_finally(g) == Append(history, HistoryEntry(clock, g.query, Join(g.full)))

\* self.history once GeneratorExit has propagated out of _stream_response:
\* the statements after the loop are not reached
HistoryOnExit(g) == history

\* the consumer drops the generator: GeneratorExit at the yield, or never started
Abandon(s) ==
    /\ Ready
    /\ Open(s)
    /\ streams' = [streams EXCEPT ![s] = GeneratorExit(@)]
    /\ history' = HistoryOnExit(streams[s])
    /\ op' = [name |-> "abandon", sid |-> s, exc |-> ""]
    /\ UNCHANGED <<proc, cfg, entities, entitiesFile, historyFile,
                   pc, clock, importTime>>

\* clear_history up to and including the open(history_file, 'w')
ClearHistory ==
    /\ Ready
    /\ history' = <<>>
    /\ historyFile' = Empty
    /\ pc' = "save_history"
    /\ op' = [name |-> "clear_history", exc |-> ""]
    /\ UNCHANGED <<proc, cfg, entities, entitiesFile, streams, clock, importTime>>

\* _save_entities: json.dump has flushed part of the text
PartialWriteEntities ==
    /\ pc = "save_entities" /\ entitiesFile = Empty
    /\ entitiesFile' = Partial
    /\ UNCHANGED <<proc, cfg, entities, history, historyFile, streams, pc, op,
                   clock, importTime>>

\* _save_history: json.dump has flushed part of the text
PartialWriteHistory ==
    /\ pc = "save_history" /\ historyFile = Empty
    /\ historyFile' = Partial
    /\ UNCHANGED <<proc, cfg, entities, history, entitiesFile, streams, pc, op,
                   clock, importTime>>

\* _save_entities: json.dump completes, the file is closed, add_entity returns
FinishSaveEntities ==
    /\ pc = "save_entities"
    /\ entitiesFile' = EntitiesDoc(entities)
    /\ pc' = "idle"
    /\ UNCHANGED <<proc, cfg, entities, history, historyFile, streams, op,
                   clock, importTime>>

\* _save_history: json.dump completes, the file is closed, the caller returns
FinishSaveHistory ==
    /\ pc = "save_history"
    /\ historyFile' = HistoryDoc(history)
    /\ pc' = "idle"
    /\ streams' = [s \in StreamIds |->
                     IF streams[s].st = "running"
                     THEN [streams[s] EXCEPT !.st = "done"] ELSE streams[s]]
    /\ UNCHANGED <<proc, cfg, entities, history, entitiesFile, op,
                   clock, importTime>>

\* the process is killed inside a _save_* call
Crash ==
    /\ pc \in {"save_entities", "save_history"}
    /\ proc' = "down"
    /\ cfg' = NoCfg
    /\ entities' = <<>>
    /\ history' = <<>>
    /\ streams' = [s \in StreamIds |-> FreeStream]
    /\ pc' = "idle"
    /\ op' = [name |-> "crash", exc |-> ""]
    /\ UNCHANGED <<entitiesFile, historyFile, clock, importTime>>

\* a new process imports the module: the Entity class default is evaluated
Restart ==
    /\ proc = "down"
    /\ proc' = "fresh"
    /\ importTime' = clock
    /\ op' = NoOp
    /\ UNCHANGED <<cfg, entities, history, entitiesFile, historyFile, streams,
                   pc, clock>>

Tick ==
    /\ \E d \in Datetimes : Before(clock, d) /\ clock' = d
    /\ UNCHANGED <<proc, cfg, entities, history, entitiesFile, historyFile,
                   streams, pc, op, importTime>>

(***************************************************************************)
(* Specifications                                                          *)
(***************************************************************************)
AnyChunk == {DeltaAt(1), DeltaAt(2), StreamError}

\* One manager, every operation, one query per kind of chat.
Next ==
    \/ \E args \in ChatArgs, llmOk \in BOOLEAN : Construct(args, llmOk)
    \/ AddEntity("alice", [age |-> "v"])
    \/ GetEntity("alice")
    \/ CreatePrompt("hi")
    \/ \E out \in {Ok("Hello"), Raise("IndexError")} : Chat("hi", out)
    \/ \E s \in StreamIds : ChatStream("yo", s)
    \/ \E s \in StreamIds, c \in AnyChunk : PullChunk(s, c)
    \/ \E s \in StreamIds : PullEnd(s)
    \/ \E s \in StreamIds : PullAfter(s)
    \/ \E s \in StreamIds : Abandon(s)
    \/ ClearHistory
    \/ PartialWriteEntities
    \/ PartialWriteHistory
    \/ FinishSaveEntities
    \/ FinishSaveHistory
    \/ Tick

Spec == Init /\ [][Next]_vars

\* Non-streaming conversations, with process kills and restarts.
NextChat ==
    \/ \E args \in ChatArgs, llmOk \in BOOLEAN : Construct(args, llmOk)
    \/ \E q \in Queries, out \in GenerateOutcomes : Chat(q, out)
    \/ ClearHistory
    \/ PartialWriteHistory
    \/ FinishSaveHistory
    \/ Crash
    \/ Restart
    \/ Tick

SpecChat == Init /\ [][NextChat]_vars

\* Streaming conversations.
NextStream ==
    \/ \E args \in ChatArgs, llmOk \in BOOLEAN : Construct(args, llmOk)
    \/ \E q \in Queries, s \in StreamIds : ChatStream(q, s)
    \/ \E s \in StreamIds, c \in AnyChunk : PullChunk(s, c)
    \/ \E s \in StreamIds : PullEnd(s)
    \/ \E s \in StreamIds : PullAfter(s)
    \/ \E s \in StreamIds : Abandon(s)
    \/ ClearHistory
    \/ PartialWriteHistory
    \/ FinishSaveHistory
    \/ Tick

SpecStream == Init /\ [][NextStream]_vars

\* The entity store, with process kills and restarts.
NextEntities ==
    \/ \E args \in ChatArgs, llmOk \in BOOLEAN : Construct(args, llmOk)
    \/ \E n \in Names, a \in AttrDicts : AddEntity(n, a)
    \/ \E n \in Names : GetEntity(n)
    \/ PartialWriteEntities
    \/ FinishSaveEntities
    \/ Crash
    \/ Restart
    \/ Tick

SpecEntities == Init /\ [][NextEntities]_vars

(***************************************************************************)
(* Start-up over documents found on disk                                   *)
(***************************************************************************)
RECURSIVE Rep(_, _)
Rep(c, n) == IF n = 0 THEN "" ELSE c \o Rep(c, n - 1)

\* the i-th record of a history document written by an earlier run
StoredDict(i) ==
    [timestamp |-> <<0, i>>, query |-> Rep("q", i), response |-> Rep("r", i),
     metadata |-> EmptyDict]

StoredHistoryDoc(n) == Json(List([i \in 1..n |-> StoredDict(i)]))

GoodEntityDict ==
    [name |-> "alice", attributes |-> Dict([age |-> "v"]), created_at |-> <<0, 1>>]

EntityDocSamples ==
    { Absent, Unreadable, Garbage, Empty,
      Json(List(<<>>)),
      Json(Dict([alice |-> GoodEntityDict])),
      Json(Dict([alice |-> [name |-> "alice", created_at |-> <<0>>]])),
      Json(Dict([alice |-> [GoodEntityDict EXCEPT !.created_at = <<>>]])),
      Json(Dict([alice |-> [name |-> "alice", attributes |-> EmptyDict]])) }

HistoryDocSamples ==
    { Absent, Unreadable, Garbage, Partial,
      Json(Dict(<<>>)),
      Json([t |-> "num", d |-> 5]),
      Json(List(<<[timestamp |-> <<0>>, query |-> "q"]>>)),
      Json(List(<<[StoredDict(1) EXCEPT !.timestamp = <<>>]>>)),
      Json(List(<<[timestamp |-> <<0>>, query |-> "q", response |-> "r"]>>)) }
    \cup {StoredHistoryDoc(n) : n \in 1..MaxLoaded}

InitLoad ==
    /\ proc = "fresh"
    /\ cfg = NoCfg
    /\ entities = <<>>
    /\ history = <<>>
    /\ entitiesFile \in EntityDocSamples
    /\ historyFile \in HistoryDocSamples
    /\ streams = [s \in {1} |-> FreeStream]
    /\ pc = "idle"
    /\ op = NoOp
    /\ clock = [sec |-> 0, usec |-> 0]
    /\ importTime = [sec |-> 0, usec |-> 0]

NextLoad ==
    \/ \E args \in CfgArgs, llmOk \in BOOLEAN : Construct(args, llmOk)
    \/ \E q \in Queries : CreatePrompt(q)
    \/ \E n \in Names : GetEntity(n)

SpecLoad == InitLoad /\ [][NextLoad]_vars

(***************************************************************************)
(* Properties                                                              *)
(***************************************************************************)
IsPrefix(a, b) == Len(a) <= Len(b) /\ SubSeq(b, 1, Len(a)) = a

\* a step on which chat(query) has received a text from generate
ChatAppendStep == pc = "idle" /\ pc' = "save_history" /\ op'.name = "chat"
\* a step on which a non-streaming chat returns
ChatReturnStep == pc = "save_history" /\ pc' = "idle" /\ op'.name = "chat"

\* C1: a non-streaming chat(query) on a history of length n leaves it with
\* length n+1, the first n entries unchanged, the new last entry carrying the
\* input query and the text generate returned, and returns that same text.
C1_ChatAppendsOne ==
    [][ /\ ChatAppendStep =>
            /\ Len(history') = Len(history) + 1
            /\ IsPrefix(history, history')
            /\ Last(history').query = op'.query
            /\ Last(history').response = op'.gen
        /\ ChatReturnStep =>
            /\ history' = history
            /\ op' = op
            /\ op'.ret = op'.gen
            /\ Last(history').response = op'.ret ]_vars

\* a chat returned an error-description text on top of one earlier entry
C1_Witness ==
    /\ pc = "idle" /\ op.name = "chat" /\ op.exc = ""
    /\ op.ret = ErrorText
    /\ Len(history) = 2
    /\ history[1].query # history[2].query

\* a step on which a drained generator runs the code after its loop
StreamEndStep == pc = "idle" /\ pc' = "save_history" /\ op'.name = "stream_end"

\* C2: a streaming chat pulled to exhaustion appends exactly one entry, only
\* once every chunk of the adapter has been delivered; its response is the
\* in-order concatenation of the delivered chunks; later pulls append nothing.
C2_StreamDrainAppendsOne ==
    [][ /\ StreamEndStep =>
            LET g == streams[op'.sid]
            IN /\ g.delivered = g.produced
               /\ Len(history') = Len(history) + 1
               /\ IsPrefix(history, history')
               /\ Last(history').query = g.query
               /\ Last(history').response = Join(g.delivered)
               /\ (g.delivered = <<"Hel", "lo">> => Last(history').response = "Hello")
               /\ streams'[op'.sid].appended = 1
        /\ op'.name = "pull" => history' = history /\ historyFile' = historyFile
        /\ op'.name = "pull_after" =>
               /\ history' = history /\ historyFile' = historyFile
               /\ streams' = streams
        /\ \A s \in DOMAIN streams' :
               /\ streams'[s].appended <= 1
               /\ streams'[s].st = "done" => streams'[s].appended = 1 ]_vars

\* a pull after exhaustion of a stream that delivered "Hel", "lo"
C2_Witness ==
    /\ pc = "idle" /\ op.name = "pull_after"
    /\ streams[op.sid].st = "done"
    /\ streams[op.sid].delivered = <<"Hel", "lo">>
    /\ history # <<>> /\ Last(history).response = "Hello"

\* C3: a streaming chat whose consumer stops pulling before exhaustion appends
\* no entry and does not rewrite the history document.
C3_AbandonedStreamNotRecorded ==
    [][ /\ op'.name = "abandon" /\ pc = "idle" =>
               /\ history' = history
               /\ historyFile' = historyFile
               /\ pc' = "idle"
               /\ streams'[op'.sid].st = "closed"
        /\ op'.name = "chat_stream" => history' = history /\ historyFile' = historyFile
        /\ \A s \in DOMAIN streams' :
               streams'[s].st \in {"created", "suspended", "closed"}
                   => streams'[s].appended = 0
        /\ \A s \in DOMAIN streams :
               (streams[s].st = "closed" /\ op'.name \notin {"chat_stream", "construct"})
                   => streams'[s] = streams[s] ]_vars

\* the consumer received the adapter's last chunk and dropped the generator
C3_Witness ==
    /\ pc = "idle" /\ op.name = "abandon"
    /\ streams[op.sid].st = "closed"
    /\ streams[op.sid].delivered = <<"Hel", StreamError>>
    /\ streams[op.sid].appended = 0

IsTurn(l) == l.k \in {"User", "Assistant"}

\* prompt p, built for query q, renders exactly the last min(n, max_history) entries
WindowRendered(p, q) ==
    LET n == Len(history)
        w == Min(n, cfg.max_history)
        body == SelectSeq(SubSeq(p, 1, Len(p) - 1), IsTurn)
    IN /\ Last(p) = Line("User", q)
       /\ Len(body) = 2 * w
       /\ \A i \in 1..w :
             /\ body[2 * i - 1] = Line("User", history[n - w + i].query)
             /\ body[2 * i] = Line("Assistant", history[n - w + i].response)
       /\ \A i \in 1..(Len(p) - 1) : p[i].k = "User" => p[i + 1].k = "Assistant"
       /\ \A i, j \in 1..Len(p) :
             (p[i].k \in {"System", "Context"} /\ IsTurn(p[j])) => i < j

\* C4: for max_history >= 1 and a stored history of length n, the prompt holds
\* exactly the last min(n, max_history) entries, each as a user line directly
\* followed by its assistant line, oldest first, after the system prompt and
\* context and before the new query, which is the last line.
C4_PromptWindow ==
    (proc = "alive" /\ cfg.max_history >= 1)
        => \A q \in Queries : WindowRendered(_create_prompt(q), q)

\* max_history = 2 over five stored entries, with a context
C4_Witness ==
    /\ proc = "alive" /\ op.name = "create_prompt"
    /\ cfg.max_history = 2 /\ Len(history) = 5
    /\ TruthyStr(cfg.context)
    /\ Len(op.ret) = 9

AddEntityStep == pc = "idle" /\ pc' = "save_entities" /\ op'.name = "add_entity"
\* a step on which add_entity returns
AddEntityReturnStep == pc = "save_entities" /\ pc' = "idle" /\ op'.name = "add_entity"

Returned(names) == proc = "alive" /\ pc = "idle" /\ op.name \in names /\ op.exc \in {"", "StopIteration"}

\* C6: once a mutating operation has returned, the document of the
\* collection it changed decodes to exactly the in-memory collection.
C6_DocumentEqualsMemory ==
    /\ Returned({"chat", "stream_end", "clear_history"})
           => _load_history(historyFile) = Ok(history)
    /\ Returned({"add_entity"})
           => _load_entities(entitiesFile) = Ok(entities)

\* C7: persisting then reloading the entity mapping or the history yields a
\* collection equal field for field, also for entries created by chat.
C7_RoundTrip ==
    proc = "alive" =>
        /\ _load_entities(EntitiesDoc(entities)) = Ok(entities)
        /\ _load_history(HistoryDoc(history)) = Ok(history)

\* C9: constructing a manager never fails because of a document: an absent,
\* unreadable, non-JSON or wrongly shaped document loads as an empty collection.
C9_LoadNeverFails ==
    (op.name = "construct" /\ op.stage # "LLM.create") =>
        /\ op.exc = ""
        /\ proc = "alive"
        /\ entitiesFile.kind # "json" => entities = <<>>
        /\ historyFile.kind # "json" => history = <<>>

\* C10: a reader never finds a document empty or partially written while an
\* operation rewrites it.
C10_AtomicRewrite ==
    /\ pc = "save_history" => historyFile.kind = "json"
    /\ pc = "save_entities" => entitiesFile.kind = "json"

(***************************************************************************)
(* Provider adapters (llm/providers/*.py): values of a JSON response       *)
(***************************************************************************)
MaxLines == 2           \* lines one streamed response holds at most

Providers == {"openai", "anthropic", "mistral", "cohere"}

\* a str inside a response body, as its sequence of characters
Text(chars) == [t |-> "str", d |-> chars]
Num(n) == [t |-> "num", d |-> n]
K(name) == [t |-> "k", v |-> name]      \* subscript by a str key
I(n)    == [t |-> "i", v |-> n]         \* subscript by an int


\* str.strip()
RECURSIVE LStrip(_)
LStrip(chars) ==
    IF chars # <<>> /\ Head(chars) \in {" ", "\n"} THEN LStrip(Tail(chars)) ELSE chars

RECURSIVE RStrip(_)
RStrip(chars) ==
    IF chars # <<>> /\ chars[Len(chars)] \in {" ", "\n"}
    THEN RStrip(SubSeq(chars, 1, Len(chars) - 1)) ELSE chars

Strip(chars) == RStrip(LStrip(chars))

\* v[k]
Subscript(v, k) ==
    CASE v.t = "dict" ->
           IF k.t = "k" /\ k.v \in DOMAIN v.d THEN Ok(v.d[k.v]) ELSE Raise("KeyError")
      [] v.t = "list" ->
           IF k.t # "i" THEN Raise("TypeError")
           ELSE IF k.v < Len(v.d) THEN Ok(v.d[k.v + 1]) ELSE Raise("IndexError")
      [] v.t = "str" ->
           IF k.t # "i" THEN Raise("TypeError")
           ELSE IF k.v < Len(v.d) THEN Ok(Text(<<v.d[k.v + 1]>>)) ELSE Raise("IndexError")
      [] v.t \in {"None", "num"} -> Raise("TypeError")

\* v[path[1]][path[2]]...
RECURSIVE Walk(_, _)
Walk(v, path) ==
    IF path = <<>> THEN Ok(v)
    ELSE LET r == Subscript(v, Head(path))
         IN IF r.ok THEN Walk(r.value, Tail(path)) ELSE r

\* where each adapter's generate looks for the generated text
TextPath(provider) ==
    CASE provider \in {"openai", "mistral"} ->
           <<K("choices"), I(0), K("message"), K("content")>>
      [] provider = "anthropic" -> <<K("content"), I(0), K("text")>>
      [] provider = "cohere" -> <<K("message"), K("content"), I(0), K("text")>>

ProviderLabel(provider) ==
    CASE provider = "openai" -> "OpenAI"
      [] provider = "anthropic" -> "Anthropic"
      [] provider = "mistral" -> "Mistral"
      [] provider = "cohere" -> "Cohere"

RequestErrorText(provider) == "Error during " \o ProviderLabel(provider) \o " request: e"
ParseErrorText(provider)   == "Error parsing " \o ProviderLabel(provider) \o " API response."

\* exceptions that are requests.exceptions.RequestException
RequestExceptions == {"ConnectionError", "Timeout", "HTTPError", "requests.JSONDecodeError"}

\* the except clauses of generate
GenerateExcept(provider, exc) ==
    IF exc \in RequestExceptions THEN Ok(RequestErrorText(provider))
    ELSE IF exc = "KeyError" THEN Ok(ParseErrorText(provider))
    ELSE Raise(exc)

\* generate(input_text) on the outcome of the HTTP call
\* http.kind: "transport" requests.post raised http.exc
\*            "status"    a non-2xx status, raise_for_status raises HTTPError
\*            "notjson"   a 2xx body that is not JSON, response.json() raises http.exc
\*            "json"      a 2xx body holding the JSON value http.body
generate(provider, http) ==
    CASE http.kind = "transport" -> GenerateExcept(provider, http.exc)
      [] http.kind = "status" -> GenerateExcept(provider, "HTTPError")
      [] http.kind = "notjson" -> GenerateExcept(provider, http.exc)
      [] http.kind = "json" ->
           LET r == Walk(http.body, TextPath(provider))
           IN IF ~r.ok THEN GenerateExcept(provider, r.exc)
              ELSE IF r.value.t # "str" THEN GenerateExcept(provider, "AttributeError")
              ELSE Ok(Join(Strip(r.value.d)))

(***************************************************************************)
(* Responses the HTTP call can produce                                     *)
(***************************************************************************)
\* the JSON value that holds leaf at path
RECURSIVE Nest(_, _)
Nest(path, leaf) ==
    IF path = <<>> THEN leaf
    ELSE IF Head(path).t = "k"
         THEN Dict([x \in {Head(path).v} |-> Nest(Tail(path), leaf)])
         ELSE List(<<Nest(Tail(path), leaf)>>)

\* bodies of a 2xx response: a generated text in its place, or, somewhere along the
\* path to it, a value that is not what the code expects
GenerateBodies(provider) ==
    LET path == TextPath(provider)
    IN {Nest(path, Text(c)) : c \in {<<"H", "i">>, <<" ", "H", "i", "\n">>, <<"\n", " ">>, <<>>}}
       \cup {Nest(SubSeq(path, 1, i), d) :
                 i \in 0..Len(path), d \in {EmptyDict, List(<<>>), None, Num(5), Text(<<"x">>)}}

GenerateHttp(provider) ==
    {[kind |-> "transport", exc |-> e] : e \in {"ConnectionError", "Timeout"}}
    \cup {[kind |-> "status"]}
    \cup {[kind |-> "notjson", exc |-> e] : e \in {"requests.JSONDecodeError", "ValueError"}}
    \cup {[kind |-> "json", body |-> b] : b \in GenerateBodies(provider)}

\* adapter.generate(input_text)
Generate(provider, http) ==
    /\ LET r == generate(provider, http)
       IN op' = [name |-> "generate", provider |-> provider, http |-> http,
                 ok |-> r.ok,
                 ret |-> IF r.ok THEN r.value ELSE "",
                 exc |-> IF r.ok THEN "" ELSE r.exc]
    /\ UNCHANGED <<proc, cfg, entities, history, entitiesFile, historyFile,
                   streams, pc, clock, importTime>>

NextGenerate == \E p \in Providers : \E http \in GenerateHttp(p) : Generate(p, http)

SpecGenerate == Init /\ [][NextGenerate]_vars

\* C11: for every outcome of the HTTP call, generate returns a text, a
\* descriptive error text on failure and the trimmed generated text on
\* success; no exception leaves the adapter.
C11_GenerateNeverRaises ==
    op.name = "generate" =>
        /\ op.ok
        /\ (op.http.kind # "json"
              => op.ret \in {RequestErrorText(op.provider), ParseErrorText(op.provider)})
        /\ (op.http.kind = "json"
              /\ op.http.body = Nest(TextPath(op.provider), Text(<<" ", "H", "i", "\n">>))
              => op.ret = "Hi")

(***************************************************************************)
(* generate_stream                                                         *)
(***************************************************************************)
\* one element of response.iter_lines()
\*   "blank"  an empty line                       (skipped by `if line:`)
\*   "other"  a line not starting with "data: "   (skipped)
\*   "done"   the line "data: [DONE]"
\*   "text"   "data: " followed by text that is not JSON
\*   "json"   "data: " followed by the JSON value `body`

\* `k in v`
Contains(v, k) ==
    CASE v.t = "dict" -> Ok(k \in DOMAIN v.d)
      [] v.t = "list" -> Ok(FALSE)
      [] v.t \in {"None", "num"} -> Raise("TypeError")

\* v.get(k, default)
GetOr(v, k, default) ==
    IF v.t # "dict" THEN Raise("AttributeError")
    ELSE Ok(IF k \in DOMAIN v.d THEN v.d[k] ELSE default)

\* bool(x) of what .get('content') returned
TruthyContent(x) ==
    CASE x.t = "None" -> FALSE
      [] x.t = "str" -> x.d # <<>>
      [] x.t = "num" -> x.d # 0
      [] x.t \in {"dict", "list"} -> x.d # <<>>

Skip == [ok |-> TRUE, yield |-> FALSE]
Yield(v) == [ok |-> TRUE, yield |-> TRUE, value |-> v]

\* data['choices'][0].get('delta', {}).get('content'), yielded when truthy
OpenAIDelta(data) ==
    LET c == Walk(data, <<K("choices"), I(0)>>)
    IN IF ~c.ok THEN c
       ELSE LET d == GetOr(c.value, "delta", EmptyDict)
            IN IF ~d.ok THEN d
               ELSE LET x == GetOr(d.value, "content", None)
                    IN IF ~x.ok THEN x
                       ELSE IF TruthyContent(x.value) THEN Yield(x.value) ELSE Skip

\* data.get('choices', [{}])[0].get('delta', {}).get('content'), yielded when truthy
MistralDelta(data) ==
    LET l == GetOr(data, "choices", List(<<EmptyDict>>))
    IN IF ~l.ok THEN l
       ELSE LET c == Subscript(l.value, I(0))
            IN IF ~c.ok THEN c
               ELSE LET d == GetOr(c.value, "delta", EmptyDict)
                    IN IF ~d.ok THEN d
                       ELSE LET x == GetOr(d.value, "content", None)
                            IN IF ~x.ok THEN x
                               ELSE IF TruthyContent(x.value) THEN Yield(x.value) ELSE Skip

\* if 'delta' in data and 'text' in data['delta']: yield data['delta']['text']
AnthropicDelta(data) ==
    LET a == Contains(data, "delta")
    IN IF ~a.ok THEN a
       ELSE IF ~a.value THEN Skip
       ELSE LET d == Subscript(data, K("delta"))
                b == Contains(d.value, "text")
            IN IF ~b.ok THEN b
               ELSE IF ~b.value THEN Skip
               ELSE Yield(d.value.d["text"])

\* if 'text' in data: yield data['text']
CohereDelta(data) ==
    LET a == Contains(data, "text")
    IN IF ~a.ok THEN a
       ELSE IF ~a.value THEN Skip
       ELSE Yield(data.d["text"])

ExtractDelta(provider, data) ==
    CASE provider = "openai" -> OpenAIDelta(data)
      [] provider = "mistral" -> MistralDelta(data)
      [] provider = "anthropic" -> AnthropicDelta(data)
      [] provider = "cohere" -> CohereDelta(data)

\* the adapters whose loop tests `line == 'data: [DONE]'`
ChecksDone(provider) == provider \in {"openai", "anthropic"}

StreamErrorChunk == "Error during streaming: e"

\* except Exception as e: yield f"Error during streaming: {e}"; the generator
\* then runs off its end
OnStreamException_silent == <<>>
OnStreamException == <<StreamErrorChunk>>

\* a yielded value as the consumer sees it
ChunkOf(v) == IF v.t = "str" THEN Join(v.d) ELSE v

\* the chunks the loop over iter_lines() yields, from `lines` on
RECURSIVE StreamLoop(_, _)
StreamLoop(provider, lines) ==
    IF lines = <<>> THEN <<>>
    ELSE LET line == Head(lines)
             rest == Tail(lines)
         IN CASE line.kind \in {"blank", "other"} -> StreamLoop(provider, rest)
              [] line.kind = "done" ->
                   IF ChecksDone(provider) THEN <<>>        \* break
                   ELSE OnStreamException                   \* json.loads("[DONE]") raises
              [] line.kind = "text" -> OnStreamException    \* json.loads raises
              [] line.kind = "json" ->
                   LET r == ExtractDelta(provider, line.body)
                   IN IF ~r.ok THEN OnStreamException
                      ELSE IF r.yield
                           THEN <<ChunkOf(r.value)>> \o StreamLoop(provider, rest)
                           ELSE StreamLoop(provider, rest)

\* list(generate_stream(input_text)) on the outcome of the HTTP call
\* http.kind: "transport", "status" as for generate;
\*            "stream"  a 2xx response whose body is the lines http.lines
generate_stream(provider, http) ==
    CASE http.kind \in {"transport", "status"} -> OnStreamException
      [] http.kind = "stream" -> StreamLoop(provider, http.lines)

\* a streamed JSON value carrying the text delta `chars` for the provider
DeltaBody(provider, chars) ==
    CASE provider \in {"openai", "mistral"} ->
           Nest(<<K("choices"), I(0), K("delta"), K("content")>>, Text(chars))
      [] provider = "anthropic" -> Nest(<<K("delta"), K("text")>>, Text(chars))
      [] provider = "cohere" -> Nest(<<K("text")>>, Text(chars))

\* streamed JSON values that carry no text delta: an event of another type,
\* a choice without delta, an empty choice list
NoDeltaBodies ==
    {Dict([type |-> Text(<<"p">>)]),
     Nest(<<K("choices"), I(0), K("finish_reason")>>, Text(<<"s">>)),
     Dict([choices |-> List(<<>>)])}

StreamLineSamples(provider) ==
    {[kind |-> k] : k \in {"blank", "other", "done", "text"}}
    \cup {[kind |-> "json", body |-> DeltaBody(provider, c)] : c \in {<<"H", "e", "l">>, <<"l", "o">>}}
    \cup {[kind |-> "json", body |-> b] : b \in NoDeltaBodies}


StreamHttp(provider) ==
    {[kind |-> "transport", exc |-> e] : e \in {"ConnectionError", "Timeout"}}
    \cup {[kind |-> "status"]}
    \cup {[kind |-> "stream", lines |-> l] : l \in UNION {[1..k -> StreamLineSamples(provider)] : k \in 0..MaxLines}}

\* the consumer drains adapter.generate_stream(input_text)
GenerateStream(provider, http) ==
    /\ op' = [name |-> "generate_stream", provider |-> provider, http |-> http,
              exc |-> "", ret |-> generate_stream(provider, http)]
    /\ UNCHANGED <<proc, cfg, entities, history, entitiesFile, historyFile,
                   streams, pc, clock, importTime>>

NextGenerateStream ==
    \E p \in Providers : \E http \in StreamHttp(p) : GenerateStream(p, http)

SpecGenerateStream == Init /\ [][NextGenerateStream]_vars

(***************************************************************************)
(* Properties of generate_stream                                           *)
(***************************************************************************)
Streamed == op.name = "generate_stream"

\* C12: when the HTTP call of generate_stream fails before any chunk (transport
\* error or non-2xx status), the consumer gets exactly one chunk, the error
\* description, then the end of the sequence, and no exception
C12_FailedCallYieldsOneErrorChunk ==
    (Streamed /\ op.http.kind \in {"transport", "status"}) =>
        /\ Len(op.ret) = 1
        /\ op.ret[1] = StreamErrorChunk
        /\ op.exc = ""

C12_Witness ==
    /\ Streamed
    /\ op.provider = "cohere"
    /\ op.http.kind = "status"
    /\ op.ret = <<StreamErrorChunk>>

\* the line carries the text delta `chars` in the place the provider reads
CarriesDelta(provider, line) ==
    /\ line.kind = "json"
    /\ \E c \in {<<"H", "e", "l">>, <<"l", "o">>} : line.body = DeltaBody(provider, c)

\* the text deltas carried by `lines`, in order
RECURSIVE TextDeltas(_, _)
TextDeltas(provider, lines) ==
    IF lines = <<>> THEN <<>>
    ELSE LET line == Head(lines)
         IN (IF CarriesDelta(provider, line)
             THEN <<Join(Walk(line.body, IF provider \in {"openai", "mistral"}
                                         THEN <<K("choices"), I(0), K("delta"), K("content")>>
                                         ELSE IF provider = "anthropic"
                                              THEN <<K("delta"), K("text")>>
                                              ELSE <<K("text")>>).value.d)>>
             ELSE <<>>) \o TextDeltas(provider, Tail(lines))

HasDone(lines) == \E i \in 1..Len(lines) : lines[i].kind = "done"

\* C13: a "data: " line that is not JSON, or is JSON without a text delta, is
\* skipped: the chunks are exactly the text deltas of the lines, in order
C13_MalformedLinesSkipped ==
    (Streamed /\ op.http.kind = "stream" /\ ~HasDone(op.http.lines)) =>
        op.ret = TextDeltas(op.provider, op.http.lines)

\* the lines before the first sentinel line
RECURSIVE BeforeDone(_)
BeforeDone(lines) ==
    IF lines = <<>> \/ Head(lines).kind = "done" THEN <<>>
    ELSE <<Head(lines)>> \o BeforeDone(Tail(lines))

\* a line every adapter handles without an exception
Plain(provider, line) == line.kind \in {"blank", "other"} \/ CarriesDelta(provider, line)

\* C14: at the sentinel line "data: [DONE]" the sequence ends: the chunks are the
\* text deltas of the lines before it, and nothing for it or after it
C14_SentinelEndsStream ==
    (/\ Streamed
     /\ op.http.kind = "stream"
     /\ HasDone(op.http.lines)
     /\ \A i \in 1..Len(BeforeDone(op.http.lines)) : Plain(op.provider, op.http.lines[i])) =>
        op.ret = TextDeltas(op.provider, BeforeDone(op.http.lines))

(***************************************************************************)
(* LLM.create and the adapters' constructors                               *)
(***************************************************************************)
\* a provider name is the sequence of its characters
UpperCase == ("A" :> "a") @@ ("C" :> "c") @@ ("E" :> "e") @@ ("G" :> "g") @@
             ("H" :> "h") @@ ("I" :> "i") @@ ("L" :> "l") @@ ("M" :> "m") @@
             ("N" :> "n") @@ ("O" :> "o") @@ ("P" :> "p") @@ ("R" :> "r") @@
             ("S" :> "s") @@ ("T" :> "t")

\* str.lower()
lower(name) ==
    [i \in 1..Len(name) |-> IF name[i] \in DOMAIN UpperCase THEN UpperCase[name[i]] ELSE name[i]]

openai    == <<"o", "p", "e", "n", "a", "i">>
anthropic == <<"a", "n", "t", "h", "r", "o", "p", "i", "c">>
mistral   == <<"m", "i", "s", "t", "r", "a", "l">>
cohere    == <<"c", "o", "h", "e", "r", "e">>

\* the adapter class create picks for a lower-cased name
Variants == (openai :> "openai") @@ (anthropic :> "anthropic") @@
            (mistral :> "mistral") @@ (cohere :> "cohere")

\* a raised exception and its message
RaiseMsg(e, msg) == [ok |-> FALSE, exc |-> e, msg |-> msg]
Message(text) == [text |-> text, named |-> <<>>, choices |-> <<>>]

\* f"Invalid provider: {provider}. Choose from 'openai', 'anthropic', 'mistral', or 'cohere'."
InvalidProvider(provider) ==
    [text |-> "Invalid provider", named |-> provider,
     choices |-> <<openai, anthropic, mistral, cohere>>]

\* the named parameters of BaseLLM.__init__; every other keyword goes to **kwargs
NamedParams == {"model", "temperature", "max_tokens", "top_p",
                "frequency_penalty", "presence_penalty"}

\* the value bound to a named parameter
Param(kwargs, k, default) == IF k \in DOMAIN kwargs THEN kwargs[k] ELSE default

\* temperature and top_p are counted in tenths: One is 1.0
One == 10
DefaultTemperature == Num(7)
DefaultMaxTokens   == Num(1500)
DefaultTopP        == Num(9)

\* not 0 <= x <= 1
OutOfUnit_open(x) == ~(0 < x.d /\ x.d < One)
OutOfUnit(x) == ~(0 <= x.d /\ x.d <= One)

BaseLLM_init(kwargs) ==
    LET temperature == Param(kwargs, "temperature", DefaultTemperature)
        top_p       == Param(kwargs, "top_p", DefaultTopP)
    IN IF OutOfUnit(temperature)
       THEN RaiseMsg("ValueError", Message("Temperature must be between 0 and 1"))
       ELSE IF OutOfUnit(top_p)
       THEN RaiseMsg("ValueError", Message("Top_p must be between 0 and 1"))
       ELSE Ok([model             |-> Param(kwargs, "model", None),
                temperature       |-> temperature,
                max_tokens        |-> Param(kwargs, "max_tokens", DefaultMaxTokens),
                top_p             |-> top_p,
                frequency_penalty |-> Param(kwargs, "frequency_penalty", Num(0)),
                presence_penalty  |-> Param(kwargs, "presence_penalty", Num(0)),
                options           |-> [k \in DOMAIN kwargs \ NamedParams |-> kwargs[k]]])

\* the environment variable each adapter reads its credential from
EnvKey(variant) ==
    CASE variant = "openai" -> "OPENAI_API_KEY"
      [] variant = "anthropic" -> "ANTHROPIC_API_KEY"
      [] variant = "mistral" -> "MISTRAL_API_KEY"
      [] variant = "cohere" -> "CO_API_KEY"

\* os.getenv(k)
getenv(env, k) == IF k \in DOMAIN env THEN Str(env[k]) ELSE None

\* OpenAILLM(**kwargs), AnthropicLLM(**kwargs), MistralLLM(**kwargs), CohereLLM(**kwargs)
Adapter(variant, kwargs, env) ==
    LET base    == BaseLLM_init(kwargs)
        api_key == getenv(env, EnvKey(variant))
    IN IF ~base.ok THEN base
       ELSE IF ~TruthyStr(api_key)
       THEN RaiseMsg("ValueError", Message(ProviderLabel(variant) \o " API key missing in environment variables."))
       ELSE Ok([variant |-> variant, api_key |-> api_key.d] @@ base.value)

\* LLM.create(provider, **kwargs)
create(provider, kwargs, env) ==
    LET p == lower(provider)
    IN IF p \in DOMAIN Variants
       THEN Adapter(Variants[p], kwargs, env)
       ELSE RaiseMsg("ValueError", InvalidProvider(p))

Bool(b) == [t |-> "bool", d |-> b]

\* [{"role": "user", "content": input_text}]; Cohere wraps the text
Messages(variant, input_text) ==
    List(<<Dict([role |-> Str("user"),
                 content |-> IF variant = "cohere"
                             THEN Dict([type |-> Str("text"), text |-> Str(input_text)])
                             ELSE Str(input_text)])>>)

\* the fields the dict literal of _get_payload lists before **self.options
CoreFields(self, input_text, stream) ==
    LET common == ("model" :> self.model) @@
                  ("messages" :> Messages(self.variant, input_text)) @@
                  ("temperature" :> self.temperature) @@
                  ("max_tokens" :> self.max_tokens) @@
                  ("stream" :> Bool(stream))
    IN CASE self.variant = "openai" ->
              common @@ ("top_p" :> self.top_p) @@
              ("frequency_penalty" :> self.frequency_penalty) @@
              ("presence_penalty" :> self.presence_penalty)
         [] self.variant \in {"anthropic", "mistral"} -> common @@ ("top_p" :> self.top_p)
         [] self.variant = "cohere" -> common @@ ("p" :> self.top_p)

\* {..., **self.options}: a key of options replaces the field of the same name
_get_payload(self, input_text, stream) ==
    self.options @@ CoreFields(self, input_text, stream)

\* inputs of create
ProviderNames ==
    {openai, <<"O", "p", "e", "n", "A", "I">>, <<"A", "n", "t", "h", "r", "o", "p", "i", "c">>,
     <<"M", "I", "S", "T", "R", "A", "L">>, cohere,
     <<"G", "e", "m", "i", "n", "i">>}

UnitSamples == {0 - 1, 0, 5, One, One + 1}

Keyword(k, values) == {<<>>} \cup {k :> v : v \in values}

ExtraOptions ==
    {<<>>, "seed" :> Num(1), "stream" :> Bool(FALSE), "messages" :> List(<<>>),
     "p" :> Num(3), ("seed" :> Num(1)) @@ ("stop" :> Str("x"))}

KwargSamples ==
    {t @@ p : t \in Keyword("temperature", {Num(n) : n \in UnitSamples}),
              p \in Keyword("top_p", {Num(n) : n \in UnitSamples})}
    \cup {m @@ x : m \in Keyword("model", {Str("m")}) \cup {("model" :> Str("m")) @@ ("max_tokens" :> Num(64))},
                   x \in ExtraOptions}

EnvSamples ==
    LET keys == {"OPENAI_API_KEY", "ANTHROPIC_API_KEY", "MISTRAL_API_KEY", "CO_API_KEY"}
    IN {[k \in keys |-> "sk"], [k \in keys |-> ""], [k \in keys \ {"CO_API_KEY"} |-> "sk"]}

\* LLM.create(provider, **kwargs) in the environment env
Create(provider, kwargs, env) ==
    LET r == create(provider, kwargs, env)
    IN /\ op' = [name |-> "create", provider |-> provider, kwargs |-> kwargs, env |-> env,
                 ret |-> r, exc |-> IF r.ok THEN "" ELSE r.exc]
       /\ UNCHANGED <<proc, cfg, entities, history, entitiesFile, historyFile,
                      streams, pc, clock, importTime>>

\* generate / generate_stream of the adapter just created build their payload
GetPayload(caller, input_text) ==
    /\ op.name = "create"
    /\ op.ret.ok
    /\ op' = [name |-> "_get_payload", self |-> op.ret.value, caller |-> caller,
              input_text |-> input_text, exc |-> "",
              ret |-> _get_payload(op.ret.value, input_text, caller = "generate_stream")]
    /\ UNCHANGED <<proc, cfg, entities, history, entitiesFile, historyFile,
                   streams, pc, clock, importTime>>

NextCreate ==
    \/ \E provider \in ProviderNames, kwargs \in KwargSamples, env \in EnvSamples :
          Create(provider, kwargs, env)
    \/ \E caller \in {"generate", "generate_stream"}, input_text \in Queries :
          GetPayload(caller, input_text)

SpecCreate == Init /\ [][NextCreate]_vars

(***************************************************************************)
(* Properties of create and of the payload                                 *)
(***************************************************************************)
Created == op.name = "create"

\* the supported names the given name equals up to letter case
SupportedAs(provider) == {v \in DOMAIN Variants : lower(provider) = lower(v)}

\* C15: a name equal to a supported name up to letter case selects that adapter
\* variant; any other name builds no adapter and fails with a message that names
\* the given input and lists the four valid names
C15_FactorySelectsOrNamesInput ==
    Created =>
        IF SupportedAs(op.provider) # {}
        THEN \A v \in SupportedAs(op.provider) :
                 IF op.ret.ok THEN op.ret.value.variant = Variants[v]
                 ELSE op.ret.msg.text # "Invalid provider"
        ELSE /\ ~op.ret.ok
             /\ op.ret.msg.text = "Invalid provider"
             /\ op.ret.msg.named = op.provider
             /\ {op.ret.msg.choices[i] : i \in DOMAIN op.ret.msg.choices} = DOMAIN Variants

InUnit(x) == 0 <= x.d /\ x.d <= One

GivenTemperature == Param(op.kwargs, "temperature", DefaultTemperature)
GivenTopP == Param(op.kwargs, "top_p", DefaultTopP)

CredentialPresent ==
    \E v \in SupportedAs(op.provider) :
        LET k == EnvKey(Variants[v]) IN k \in DOMAIN op.env /\ op.env[k] # ""

\* C16: with the credential present, construction succeeds exactly when
\* temperature and top_p both lie in [0,1], bounds included; otherwise it fails
\* with a configuration error and no adapter
C16_UnitIntervalIffConstructed ==
    (Created /\ CredentialPresent) =>
        /\ op.ret.ok <=> (InUnit(GivenTemperature) /\ InUnit(GivenTopP))
        /\ ~op.ret.ok =>
               /\ op.ret.exc = "ValueError"
               /\ op.ret.msg.text \in {"Temperature must be between 0 and 1",
                                       "Top_p must be between 0 and 1"}

C16_Witness ==
    /\ Created
    /\ CredentialPresent
    /\ GivenTemperature = Num(One)
    /\ GivenTopP = Num(0)
    /\ op.ret.ok
    /\ op.ret.value.temperature = Num(One)

\* the name under which the adapter sends top_p
TopPKey(variant) == IF variant = "cohere" THEN "p" ELSE "top_p"

CoreKeys(variant) == {"model", "messages", "temperature", "max_tokens", "stream", TopPKey(variant)}

\* C20: the payload holds the configured model, the prompt as one user message,
\* temperature, max_tokens, top_p, a stream flag that is false for generate and
\* true for generate_stream, and every extra option; no extra option changes one
\* of those fields
C20_PayloadCoreAndOptions ==
    op.name = "_get_payload" =>
        LET self == op.self
            payload == op.ret
        IN /\ CoreKeys(self.variant) \subseteq DOMAIN payload
           /\ payload["model"] = self.model
           /\ payload["messages"] = Messages(self.variant, op.input_text)
           /\ payload["temperature"] = self.temperature
           /\ payload["max_tokens"] = self.max_tokens
           /\ payload[TopPKey(self.variant)] = self.top_p
           /\ payload["stream"] = Bool(op.caller = "generate_stream")
           /\ \A k \in DOMAIN self.options \ CoreKeys(self.variant) :
                  k \in DOMAIN payload /\ payload[k] = self.options[k]

(***************************************************************************)
(* Properties of the streaming chat as a pull model                        *)
(***************************************************************************)
\* the step is a pull on stream s that took one chunk from the adapter
PullStep(s) ==
    /\ op'.name = "pull"
    /\ op'.sid = s
    /\ streams'[s].produced = Append(streams[s].produced, op'.ret)
    /\ streams'[s].delivered = Append(streams[s].delivered, op'.ret)

\* C17: no adapter chunk is requested before the first pull; the adapter is asked
\* for one more chunk only by a pull, after every earlier chunk was delivered;
\* the consumer receives exactly the adapter's chunks, in order
C17_PullModelNoPrefetch ==
    [][\A s \in StreamIds :
          /\ streams'[s].st = "created" => streams'[s].produced = <<>>
          /\ streams'[s].delivered = streams'[s].produced
          /\ streams[s].delivered = streams[s].produced
          /\ streams'[s].produced # streams[s].produced =>
                 \/ streams'[s].produced = <<>>
                 \/ PullStep(s)]_vars

C17_Witness ==
    \E s \in StreamIds :
        /\ op.name = "pull" /\ op.sid = s
        /\ streams[s].st = "suspended"
        /\ Len(streams[s].produced) = 2
        /\ streams[s].delivered = streams[s].produced

\* C19: the prompt of a streaming chat is the one built from the history at the
\* time chat(query, stream=True) is called; the generator keeps it unchanged, so
\* the first pull sends it whatever happened to the history in between
C19_PromptBuiltAtCall ==
    [][\A s \in StreamIds :
          /\ (~Open(s) /\ streams'[s].st = "created") =>
                 streams'[s].prompt = _create_prompt(streams'[s].query)
          /\ (Open(s) /\ streams'[s].st # "free") =>
                 streams'[s].prompt = streams[s].prompt]_vars

\* the first pull has just sent a prompt that the present history would not give
C19_Witness ==
    \E s \in StreamIds :
        /\ op.name = "pull" /\ op.sid = s
        /\ Len(streams[s].produced) = 1
        /\ streams[s].prompt # _create_prompt(streams[s].query)

(***************************************************************************)
(* One manager, non-streaming chats and two generators interleaved         *)
(***************************************************************************)
InitInterleaved ==
    /\ proc = "fresh"
    /\ cfg = NoCfg
    /\ entities = <<>>
    /\ history = <<>>
    /\ entitiesFile = Absent
    /\ historyFile = Absent
    /\ streams = [s \in {1, 2} |-> FreeStream]
    /\ pc = "idle"
    /\ op = NoOp
    /\ clock = [sec |-> 0, usec |-> 0]
    /\ importTime = [sec |-> 0, usec |-> 0]

NextInterleaved ==
    \/ \E args \in ChatArgs : Construct(args, TRUE)
    \/ Chat("hi", Ok("Hello"))
    \/ \E s \in StreamIds : ChatStream(IF s = 1 THEN "hi" ELSE "yo", s)
    \/ \E s \in StreamIds : PullChunk(s, DeltaAt(Len(streams[s].produced) + 1))
    \/ \E s \in StreamIds : PullEnd(s)
    \/ \E s \in StreamIds : Abandon(s)
    \/ FinishSaveHistory
    \/ Tick

SpecInterleaved == InitInterleaved /\ [][NextInterleaved]_vars

Sorted(h) == \A i \in 1..(Len(h) - 1) : ~Before(h[i + 1].timestamp, h[i].timestamp)

\* C18: whatever the interleaving of chats and pulls, the stored timestamps never
\* decrease along the history, and each chat's entry is appended, stamped with
\* the time of its completion, behind the entries of the chats completed before
C18_HistoryInCompletionOrder ==
    [][/\ Sorted(history')
       /\ Len(history') = Len(history) + 1 =>
              /\ SubSeq(history', 1, Len(history)) = history
              /\ Last(history').timestamp = clock
              /\ op'.name \in {"chat", "stream_end"}
              /\ op'.name = "chat" => Last(history').query = op'.query
              /\ op'.name = "stream_end" => Last(history').query = streams[op'.sid].query]_vars

NoHeader(p) == \A i \in 1..Len(p) : p[i].k # "Header"

\* generator 1 was called first, generator 2 while 1 was open and before any
\* entry existed; 2 was drained first, and the history holds 2's entry before 1's
C18_Witness ==
    /\ streams[1].after = {} /\ streams[2].after = {1}
    /\ NoHeader(streams[1].prompt) /\ NoHeader(streams[2].prompt)
    /\ streams[1].appended = 1 /\ streams[2].appended = 1
    /\ Len(history) = 2
    /\ history[1].query = streams[2].query
    /\ history[2].query = streams[1].query
    /\ streams[1].query # streams[2].query
    /\ Before(history[1].timestamp, history[2].timestamp)

(***************************************************************************)
(* The size of the rendered window                                         *)
(***************************************************************************)
\* the stored entries a built prompt renders: its turn lines before the new query
RenderedTurns(p) == SelectSeq(SubSeq(p, 1, Len(p) - 1), IsTurn)

\* C21: a prompt never renders more than max_history stored entries, for every
\* max_history >= 0 the constructor accepts; with max_history = 0 it renders no
\* query/response pair of a stored entry
C21_WindowAtMostMaxHistory ==
    (proc = "alive" /\ op.name = "create_prompt") =>
        /\ Len(RenderedTurns(op.ret)) <= 2 * cfg.max_history
        /\ cfg.max_history = 0 => RenderedTurns(op.ret) = <<>>

====
